---- MODULE Spec2Model ----
(***************************************************************************)
(* A model of github.com/halimath/globwatch: the glob pattern compiler and *)
(* matcher of package pattern, and the polling Watcher of package          *)
(* globwatch with its watch goroutine, its channels and its callers.       *)
(*                                                                         *)
(* Strings are sequences of runes; a rune is a one-character string.  All  *)
(* runes of the model are ASCII, so a decoded rune is one element wide.    *)
(***************************************************************************)
EXTENDS Integers, Sequences, FiniteSets, TLC

(***************************************************************************)
(* Package pattern: constants                                              *)
(***************************************************************************)
Separator == "/"
SingleWildcard == "?"
AnyWildcard == "*"
Backslash == "\\"
GroupStart == "["
GroupEnd == "]"
GroupNegate == "^"
Range == "-"

\* utf8.RuneError, which utf8.DecodeRuneInString returns for the empty string
RuneError == "RuneError"
\* the rune U+0000, the zero value of a rune variable or field
NulRune == "NUL"

\* The runes of the model in code point order (for runeRange.match).
RuneOrder == <<NulRune, "*", "-", "/", "?", "[", "\\", "]", "^",
               "a", "d", "m", "t", "x", RuneError>>

RuneVal(r) == CHOOSE i \in 1..Len(RuneOrder) : RuneOrder[i] = r

\* Go's s[n:] for a string or slice s
From(s, n) == SubSeq(s, n + 1, Len(s))

\* utf8.DecodeRuneInString: the first rune and its width
DecodeRune(p) == IF Len(p) = 0 THEN RuneError ELSE p[1]
DecodeLen(p) == IF Len(p) = 0 THEN 0 ELSE 1

tokenTypeLiteral == "literal"
tokenTypeSingleRune == "singleRune"
tokenTypeAnyRunes == "anyRunes"
tokenTypeAnyDirectories == "anyDirectories"
tokenTypeGroup == "group"

\* runeGroup{}
EmptyGroup == [neg |-> FALSE, runes |-> <<>>, ranges |-> <<>>]

token(t, r, g) == [t |-> t, r |-> r, g |-> g]

\* a range that leaves out its upper end
RangeMatchBelowHi(rg, r) == RuneVal(rg.lo) <= RuneVal(r) /\ RuneVal(r) < RuneVal(rg.hi)

\* runeRange.match
RangeMatch(rg, r) == RuneVal(rg.lo) <= RuneVal(r) /\ RuneVal(r) <= RuneVal(rg.hi)

\* runeGroup.match
GroupMatch(g, r) ==
  IF \E i \in 1..Len(g.runes) : g.runes[i] = r THEN ~g.neg
  ELSE IF \E i \in 1..Len(g.ranges) : RangeMatch(g.ranges[i], r) THEN ~g.neg
  ELSE g.neg

ErrBadPattern == "bad pattern"

GroupOk(t, le) == [ok |-> TRUE, t |-> t, le |-> le]
GroupErr(le) == [ok |-> FALSE, t |-> token(tokenTypeGroup, NulRune, EmptyGroup), le |-> le]

\* the default branch of parseGroup's outer switch, reached for an ordinary
\* rune and, by fallthrough, for an escaped one
GroupDefault(g, start, r) ==
  [g |-> IF start # NulRune THEN [g EXCEPT !.runes = Append(@, start)] ELSE g,
   start |-> r]

\* parseGroup's loop: p the pattern from its "[", le the offset read so far,
\* start the pending rune (NulRune: none), g the group built so far
RECURSIVE parseGroupLoop(_, _, _, _, _)
parseGroupLoop(p, le0, initialLen, start, g) ==
  IF Len(From(p, le0)) = 0 THEN GroupErr(le0)
  ELSE
    LET r == DecodeRune(From(p, le0))
        l == DecodeLen(From(p, le0))
        le == le0 + l
    IN
    IF initialLen = le - l /\ r = GroupNegate
      THEN parseGroupLoop(p, le, initialLen, start, [g EXCEPT !.neg = TRUE])
    ELSE IF r = GroupEnd
      THEN GroupOk(token(tokenTypeGroup, NulRune,
                         IF start # NulRune THEN [g EXCEPT !.runes = Append(@, start)] ELSE g),
                   le)
    ELSE IF r = Range
      THEN IF start = NulRune THEN GroupErr(le)
           ELSE IF Len(From(p, le)) = 0 THEN GroupErr(le)
           ELSE LET r2 == DecodeRune(From(p, le))
                    le2 == le + DecodeLen(From(p, le))
                IN
                IF r2 = GroupEnd THEN GroupErr(le2)
                ELSE IF r2 = Backslash
                  THEN IF Len(From(p, le2)) = 0 THEN GroupErr(le2)
                       ELSE LET r3 == DecodeRune(From(p, le2))
                                le3 == le2 + DecodeLen(From(p, le2))
                            IN parseGroupLoop(p, le3, initialLen, NulRune,
                                 [g EXCEPT !.ranges = Append(@, [lo |-> start, hi |-> r3])])
                ELSE parseGroupLoop(p, le2, initialLen, NulRune,
                       [g EXCEPT !.ranges = Append(@, [lo |-> start, hi |-> r2])])
    ELSE IF r = Backslash
      THEN IF Len(From(p, le)) = 0 THEN GroupErr(le)
           ELSE LET r2 == DecodeRune(From(p, le))
                    le2 == le + DecodeLen(From(p, le))
                    d == GroupDefault(g, start, r2)
                IN parseGroupLoop(p, le2, initialLen, d.start, d.g)
    ELSE LET d == GroupDefault(g, start, r)
         IN parseGroupLoop(p, le, initialLen, d.start, d.g)

parseGroup(p) == parseGroupLoop(p, DecodeLen(p), DecodeLen(p), NulRune, EmptyGroup)

PatOk(tokens) == [ok |-> TRUE, tokens |-> tokens]
PatErr == [ok |-> FALSE, tokens |-> <<>>]

\* a compiler that never looks at the token before a wildcard
LastIsNever(tokens, types) == FALSE

LastIs(tokens, types) == Len(tokens) > 0 /\ tokens[Len(tokens)].t \in types

\* a compiler that takes ** for AnyDirectories whatever follows the pair
StarTokenAnywhere(p) ==
  LET l == DecodeLen(p) IN
  IF Len(From(p, l)) > 0 /\ DecodeRune(From(p, l)) = AnyWildcard
    THEN [ok |-> TRUE, t |-> token(tokenTypeAnyDirectories, NulRune, EmptyGroup),
          l |-> l + DecodeLen(From(p, l))]
    ELSE [ok |-> TRUE, t |-> token(tokenTypeAnyRunes, NulRune, EmptyGroup), l |-> l]

\* the AnyWildcard case of New: the token for "*" or "**", its width, or an error
StarToken(p) ==
  LET l == DecodeLen(p) IN
  IF Len(From(p, l)) > 0 /\ DecodeRune(From(p, l)) = AnyWildcard
    THEN LET nl == DecodeLen(From(p, l))
             d == DecodeRune(From(p, l + nl))
         IN IF d # Separator
              THEN [ok |-> FALSE, t |-> token(tokenTypeAnyRunes, NulRune, EmptyGroup), l |-> l]
              ELSE [ok |-> TRUE, t |-> token(tokenTypeAnyDirectories, NulRune, EmptyGroup), l |-> l + nl]
    ELSE [ok |-> TRUE, t |-> token(tokenTypeAnyRunes, NulRune, EmptyGroup), l |-> l]

\* the loop of New: p the rest of the pattern, tokens the tokens so far
RECURSIVE NewLoop(_, _)
NewLoop(p, tokens) ==
  IF Len(p) = 0 THEN PatOk(tokens)
  ELSE
    LET r == DecodeRune(p)
        l == DecodeLen(p)
    IN
    IF r = Separator
      THEN IF Len(tokens) > 0 /\ tokens[Len(tokens)].r = Separator THEN PatErr
           ELSE NewLoop(From(p, l), Append(tokens, token(tokenTypeLiteral, Separator, EmptyGroup)))
    ELSE IF r = SingleWildcard
      THEN IF LastIs(tokens, {tokenTypeAnyRunes, tokenTypeAnyDirectories}) THEN PatErr
           ELSE NewLoop(From(p, l), Append(tokens, token(tokenTypeSingleRune, NulRune, EmptyGroup)))
    ELSE IF r = AnyWildcard
      THEN IF LastIs(tokens, {tokenTypeSingleRune, tokenTypeAnyDirectories}) THEN PatErr
           ELSE LET s == StarToken(p)
                IN IF ~s.ok THEN PatErr
                   ELSE NewLoop(From(p, s.l), Append(tokens, s.t))
    ELSE IF r = Backslash
      THEN IF Len(From(p, l)) = 0 THEN PatErr
           ELSE LET q == From(p, l)
                IN NewLoop(From(q, DecodeLen(q)),
                           Append(tokens, token(tokenTypeLiteral, DecodeRune(q), EmptyGroup)))
    ELSE IF r = GroupStart
      THEN LET gr == parseGroup(p)
           IN IF ~gr.ok THEN PatErr
              ELSE NewLoop(From(p, gr.le), Append(tokens, gr.t))
    ELSE IF r = GroupEnd THEN PatErr
    ELSE NewLoop(From(p, l), Append(tokens, token(tokenTypeLiteral, r, EmptyGroup)))

\* pattern.New: [ok, tokens]; ok = FALSE stands for the error wrapping ErrBadPattern
New(pat) == NewLoop(pat, <<>>)

\* a matcher whose ** never takes a directory
SkipSegmentNone(f, off) == -1

\* the path after the segment that starts at f: the scan of the
\* tokenTypeAnyDirectories case, from offset le to just past the next separator;
\* -1 when the path ends first (the case returns false)
RECURSIVE SkipSegment(_, _)
SkipSegment(f, off) ==
  IF Len(From(f, off)) = 0 THEN -1
  ELSE IF DecodeRune(From(f, off)) = Separator THEN off + DecodeLen(From(f, off))
  ELSE SkipSegment(f, off + DecodeLen(From(f, off)))

\* a matcher that takes the end of the tokens for a match
TokensExhaustedAccept == "T"

\* match's result when the tokens are exhausted and the path is not
TokensExhausted == "F"

\* wildcards that take a separator for any other rune
WildcardStopNever(r) == FALSE

\* the test r == Separator of the cases tokenTypeSingleRune and tokenTypeAnyRunes
WildcardStop(r) == r = Separator

\* match: "T" (true), "F" (false) or "P" (a run time panic: t[2:] out of range)
RECURSIVE match(_, _)
match(f, t) ==
  IF Len(f) = 0
    THEN IF Len(t) = 0 THEN "T"
         ELSE IF Len(t) = 1 /\ t[1].t = tokenTypeAnyRunes THEN "T"
         ELSE "F"
  ELSE IF Len(t) = 0 THEN TokensExhausted
  ELSE
    LET r == DecodeRune(f)
        le == DecodeLen(f)
        next == match(From(f, le), From(t, 1))
    IN
    CASE t[1].t = tokenTypeLiteral ->
           IF t[1].r # r THEN "F" ELSE next
      [] t[1].t = tokenTypeGroup ->
           IF ~GroupMatch(t[1].g, r) THEN "F" ELSE next
      [] t[1].t = tokenTypeSingleRune ->
           IF WildcardStop(r) THEN "F" ELSE next
      [] t[1].t = tokenTypeAnyRunes ->
           IF WildcardStop(r) THEN match(f, From(t, 1))
           ELSE LET a == match(From(f, le), t)
                IN IF a # "F" THEN a
                   ELSE LET b == match(f, From(t, 1))
                        IN IF b # "F" THEN b ELSE next
      [] t[1].t = tokenTypeAnyDirectories ->
           IF Len(t) < 2 THEN "P"
           ELSE LET a == match(f, From(t, 2))
                IN IF a # "F" THEN a
                   ELSE LET off == SkipSegment(f, le)
                        IN IF off = -1 THEN "F"
                           ELSE LET b == match(From(f, off), From(t, 2))
                                IN IF b # "F" THEN b
                                   ELSE match(From(f, off), t)

\* Pattern.Match
Match(pat, f) == match(f, pat.tokens) = "T"


(***************************************************************************)
(* Package globwatch: the file system the watcher polls                    *)
(***************************************************************************)
\* The files that may exist, in the order fs.WalkDir visits them (lexical
\* order inside each directory): d/at, d/t, m, t.
Tree == << <<"d", "/", "a", "t">>, <<"d", "/", "t">>, <<"m">>, <<"t">> >>

Files == {Tree[k] : k \in 1..Len(Tree)}

\* the directories of Tree that can be removed as a whole
Dirs == { <<"d">> }

IsUnder(f, dir) ==
  /\ Len(f) > Len(dir) + 1
  /\ SubSeq(f, 1, Len(dir)) = dir
  /\ f[Len(dir) + 1] = Separator

\* the latest modification time a file takes
MaxTime == 2
\* how many times the environment changes the file system
MaxFsOps == 2
\* how many ticks the ticker delivers
MaxTicks == 2
\* how many I/O errors (failed walks, failed stats of existing files) occur
MaxFaults == 1
\* how many goroutines call Start or StartContext when the watcher is reused
MaxStarts == 2
\* how many calls of Close are made
MaxCloses == 2

\* the capacity of the channels c and errors
ChanCap == 10

\* the pattern the watcher is created with, "**/*t" (the tests use "**/*_test.go")
WatchPattern == <<"*", "*", "/", "*", "t">>

\* New: the watcher's compiled pattern (New returns an error, and no watcher,
\* when the pattern does not compile)
wpat == New(WatchPattern)

\* a GlobFS that returns every file of the tree
GlobFSUnfiltered(p, fs) == SelectSeq(Tree, LAMBDA f : fs[f] # 0)

\* Pattern.GlobFS with root ".": the files of the tree, in walk order, that
\* exist and match
GlobFS(p, fs) == SelectSeq(Tree, LAMBDA f : fs[f] # 0 /\ Match(p, f))

Created == "created"
Modified == "modified"
Deleted == "deleted"

Event(type, path) == [Type |-> type, Path |-> path]
NoEvent == [Type |-> "none", Path |-> <<>>]
StatError(path) == [Type |-> "stat", Path |-> path]
WalkError == [Type |-> "walk", Path |-> <<>>]

\* the run-time errors that end the program
NoPanic == "none"
CloseOfClosed == "panic: close of closed channel"
SendOnClosed == "panic: send on closed channel"
ConcurrentMapWrites == "fatal error: concurrent map writes"

\* make(map[string]time.Time): 0 stands for "no entry"
EmptyMap == [f \in Files |-> 0]

VARIABLES
  fsys,          \* the file system: file -> modification time, 0 when absent
  modtimes,      \* Watcher.modtimes
  c,             \* the buffer of channel Watcher.c
  errors,        \* the buffer of channel Watcher.errors
  cClosed,       \* Watcher.c is closed
  errorsClosed,  \* Watcher.errors is closed
  closeClosed,   \* Watcher.close is closed
  closedClosed,  \* Watcher.closed is closed
  ctxDone,       \* the context given to StartContext is cancelled
  th,            \* the calls of Start/StartContext and the goroutines they start
  cl,            \* the calls of Close: how many wait in <-w.closed, how many returned
  panicked,      \* NoPanic, or the panic or fatal error that ended the program
  lastEv,        \* per file, the type of the last event sent for it ("none": no event yet)
  hist,          \* per channel, what was sent on it and what was received from it
  tracing,       \* hist is kept
  libpc,         \* the caller of package pattern: "new", "compiled" (New returned), "matched"
  src,           \* the pattern text given to pattern.New
  compiled,      \* what pattern.New returned
  path,          \* the path given to Pattern.Match
  result,        \* what Pattern.Match returned ("none": not called yet)
  calls,         \* the calls of Pattern.Match that run concurrently, step by step
  again,         \* what a second pattern.New of the same text returned
  glob,          \* the call of Pattern.GlobFS: its root and what it returned
  usage,         \* "once": Start until it succeeds, then no further Start; "any"
  mayCancel,     \* the caller cancels the context at some time
  ticksLeft,     \* ticks the ticker still delivers
  fsOpsLeft,     \* file system changes still made
  faultsLeft,    \* I/O errors that still occur
  closesLeft     \* calls of Close still made

vars == <<fsys, modtimes, c, errors, cClosed, errorsClosed, closeClosed,
          closedClosed, ctxDone, th, cl, panicked, lastEv, hist, tracing, libpc,
          src, compiled, path, result, calls, again, glob, usage, mayCancel,
          ticksLeft, fsOpsLeft, faultsLeft, closesLeft>>

\* the Watcher's fields and its goroutines
watcher == <<modtimes, c, errors, cClosed, errorsClosed, closeClosed,
             closedClosed, th, panicked, lastEv, hist>>
\* how the watcher is used
cfg == <<usage, mayCancel, tracing>>
\* the caller of package pattern: the pattern text, what New returned for it,
\* the path given to Match and what Match returned
lib == <<libpc, src, compiled, path, result, calls, again, glob>>

\* the callers of Pattern.Match
Callers == {1, 2}

\* a call of Pattern.Match: st is "idle", "running" or "done", f the path
\* given, stack the frames of match (the innermost last), ret what the frame
\* that returned last returned, result what Match returned
NoCall == [st |-> "idle", f |-> <<>>, stack |-> <<>>, ret |-> "none", result |-> "none"]
NoCalls == [q \in Callers |-> NoCall]

\* GlobFS was not called
NoGlob == [done |-> FALSE, root |-> <<>>, out |-> <<>>]

\* New was not called a second time
NotAgain == [done |-> FALSE, pat |-> [ok |-> FALSE, tokens |-> <<>>]]

\* nothing sent or received yet; hist after x was sent on, or received from,
\* channel ch
NoHist == [ch \in {"c", "errors"} |-> [sent |-> <<>>, rcvd |-> <<>>]]
Sent(ch, x) == IF tracing THEN [hist EXCEPT ![ch].sent = Append(@, x)] ELSE hist
Received(ch, x) == IF tracing THEN [hist EXCEPT ![ch].rcvd = Append(@, x)] ELSE hist

\* an enumeration without I/O error
Clean(r) == ~r.walkErr /\ \A f \in Files : r.seen[f] # -1

\* A call of Start and its goroutine.  pc is the position; names, i, found and
\* pend are the locals of determineInitialState and detectChanges; the other
\* fields record what the current enumeration did:
\*   pre    modtimes when the tick began
\*   seen   per file: 0 not enumerated, -1 stat failed, else the modtime read
\*   out    the events sent on c
\*   errs   the errors sent on errors
\*   walkErr  GlobFS failed
\* These are reset when the enumeration returns, after which the record keeps
\*   initErr  an I/O error occurred in determineInitialState
\*   last, lastClean, lastWalkErr  seen, Clean and walkErr of the enumeration
\*                                 before
NewThread ==
  [pc |-> "unstarted", names |-> <<>>, i |-> 0,
   found |-> {}, pend |-> NoEvent, pre |-> EmptyMap, seen |-> EmptyMap,
   out |-> <<>>, errs |-> <<>>, walkErr |-> FALSE, initErr |-> FALSE,
   last |-> EmptyMap, lastClean |-> FALSE, lastWalkErr |-> FALSE]

\* the record of a goroutine at its select, between two enumerations
Idle(r) ==
  [NewThread EXCEPT !.pc = "select", !.initErr = r.initErr, !.last = r.seen,
                    !.lastClean = Clean(r), !.lastWalkErr = r.walkErr]

Threads == 1..MaxStarts

InitWatcher ==
  /\ modtimes = EmptyMap
  /\ c = <<>>
  /\ errors = <<>>
  /\ cClosed = FALSE
  /\ errorsClosed = FALSE
  /\ closeClosed = FALSE
  /\ closedClosed = FALSE
  /\ ctxDone = FALSE
  /\ th = [g \in Threads |-> NewThread]
  /\ cl = [waiting |-> 0, returned |-> 0]
  /\ panicked = NoPanic
  /\ lastEv = [f \in Files |-> "none"]
  /\ hist = NoHist

\* the trees the watcher is created on: every file, or d/t alone
InitFs ==
  fsys \in {[f \in Files |-> 1],
            [f \in Files |-> IF f = <<"d", "/", "t">> THEN 1 ELSE 0]}

\* The runs explored: a watcher that polls a changing, failing file system
\* and is not shut down; and a watcher that is shut down, by Close and by
\* its context, with ShutTicks ticks and ShutFsOps changes of the file system.
ShutTicks == 1
ShutFsOps == 1

InitPolling ==
  /\ mayCancel = FALSE
  /\ ticksLeft = MaxTicks
  /\ fsOpsLeft = MaxFsOps
  /\ faultsLeft = MaxFaults
  /\ closesLeft = 0

InitShutdown ==
  /\ mayCancel = TRUE
  /\ ticksLeft = ShutTicks
  /\ fsOpsLeft = ShutFsOps
  /\ faultsLeft = 0
  /\ closesLeft = MaxCloses

\* the watcher's pattern has been compiled by New; Match is called by GlobFS only
InitLib ==
  /\ libpc = "compiled"
  /\ src = WatchPattern
  /\ compiled = wpat
  /\ path = <<>>
  /\ result = "none"
  /\ calls = NoCalls
  /\ again = NotAgain
  /\ glob = NoGlob

Init ==
  /\ InitWatcher
  /\ InitFs
  /\ InitLib
  /\ tracing = FALSE
  /\ usage = "once"
  /\ InitPolling \/ InitShutdown

(***************************************************************************)
(* The environment: the file system changes, the context is cancelled,     *)
(* the consumers receive                                                   *)
(***************************************************************************)
FsChange(new) ==
  /\ panicked = NoPanic
  /\ fsOpsLeft > 0
  /\ new # fsys
  /\ fsys' = new
  /\ fsOpsLeft' = fsOpsLeft - 1
  /\ UNCHANGED <<watcher, ctxDone, cl, cfg, lib, ticksLeft, faultsLeft, closesLeft>>

\* a file is written (created, or its modification time set)
FsTouch(f, t) == FsChange([fsys EXCEPT ![f] = t])

\* a file is removed
FsRm(f) == FsChange([fsys EXCEPT ![f] = 0])

\* a file is moved to a name that is free; it keeps its modification time
FsMv(f, to) ==
  /\ fsys[f] # 0
  /\ fsys[to] = 0
  /\ FsChange([fsys EXCEPT ![f] = 0, ![to] = fsys[f]])

\* a directory is removed with every file beneath it
FsRmDir(dir) == FsChange([f \in Files |-> IF IsUnder(f, dir) THEN 0 ELSE fsys[f]])

\* the context given to StartContext is cancelled (Start gives a context
\* that never is)
CtxCancel ==
  /\ panicked = NoPanic
  /\ mayCancel
  /\ ~ctxDone
  /\ ctxDone' = TRUE
  /\ UNCHANGED <<fsys, watcher, cl, cfg, lib, ticksLeft, fsOpsLeft, faultsLeft, closesLeft>>

\* a consumer receives from C()
RecvC ==
  /\ panicked = NoPanic
  /\ Len(c) > 0
  /\ c' = Tail(c)
  /\ hist' = Received("c", Head(c))
  /\ UNCHANGED <<fsys, modtimes, errors, cClosed, errorsClosed, closeClosed,
                 closedClosed, ctxDone, th, cl, panicked, lastEv, cfg, lib, ticksLeft,
                 fsOpsLeft, faultsLeft, closesLeft>>

\* a consumer receives from ErrorsChan()
RecvErr ==
  /\ panicked = NoPanic
  /\ Len(errors) > 0
  /\ errors' = Tail(errors)
  /\ hist' = Received("errors", Head(errors))
  /\ UNCHANGED <<fsys, modtimes, c, cClosed, errorsClosed, closeClosed,
                 closedClosed, ctxDone, th, cl, panicked, lastEv, cfg, lib, ticksLeft,
                 fsOpsLeft, faultsLeft, closesLeft>>

(***************************************************************************)
(* Watcher                                                                 *)
(***************************************************************************)
\* fs.Stat: fails when the file is gone, and may fail with an I/O error
StatOutcomes(f) ==
  IF fsys[f] = 0 THEN {FALSE}
  ELSE IF faultsLeft > 0 THEN {TRUE, FALSE}
  ELSE {TRUE}

\* fs.WalkDir: may fail with an I/O error
WalkOutcomes == IF faultsLeft > 0 THEN {TRUE, FALSE} ELSE {TRUE}

\* the I/O errors left after a walk, and after the stat of f (the stat of a
\* file that is gone fails without an I/O error)
AfterWalk(ok) == IF ok THEN faultsLeft ELSE faultsLeft - 1
AfterStatOf(f, ok) == IF ~ok /\ fsys[f] # 0 THEN faultsLeft - 1 ELSE faultsLeft

\* positions at which the next step reads or writes Watcher.modtimes
MapPcs == {"init_stat", "stat", "del"}

\* Two goroutines in Watcher.modtimes at once are a data race on a Go map:
\* the runtime may stop the program ("concurrent map writes") or go on.
MapOutcomes(g) ==
  IF \E h \in Threads \ {g} : th[h].pc \in MapPcs THEN {"ok", "fatal"} ELSE {"ok"}

\* a channel that never makes the sender wait
CanSendAlways(buf, closed) == TRUE

\* a send on a channel with buffer buf: it blocks while the buffer is full,
\* and panics on a closed channel
CanSend(buf, closed) == closed \/ Len(buf) < ChanCap

\* a first loop that takes the names from the last to the first
CurNameReversed(r) == r.names[Len(r.names) + 1 - r.i]

\* for _, name := range names: the name of the current iteration
CurName(r) == r.names[r.i]

\* the position after an iteration of determineInitialState's loop
AfterInitStat(r) == IF r.i >= Len(r.names) THEN "spawn" ELSE "init_stat"

\* the position after an iteration of detectChanges' first loop
AfterStat(r) == IF r.i >= Len(r.names) THEN "del" ELSE "stat"

\* a determineInitialState that stores nothing
SeedNothing(m, name, mt) == m

\* determineInitialState: w.modtimes[name] = i.ModTime()
Seed(m, name, mt) == [m EXCEPT ![name] = mt]

\* Start / StartContext up to the GlobFS of determineInitialState.  A failed
\* walk makes StartContext return the error.
StartCall(g) ==
  /\ panicked = NoPanic
  /\ th[g].pc \in {"unstarted", "start_failed"}
  /\ g = 1 \/ usage = "any"
  /\ \E walkOk \in WalkOutcomes :
       /\ th' = [th EXCEPT ![g] =
                   IF walkOk
                     THEN [NewThread EXCEPT !.pc = IF GlobFS(wpat, fsys) = <<>>
                                                     THEN "spawn" ELSE "init_stat",
                                            !.names = GlobFS(wpat, fsys),
                                            !.i = 1]
                     ELSE [NewThread EXCEPT !.pc = "start_failed",
                                            !.initErr = TRUE]]
       /\ faultsLeft' = AfterWalk(walkOk)
  /\ UNCHANGED <<fsys, modtimes, c, errors, cClosed, errorsClosed, closeClosed,
                 closedClosed, ctxDone, cl, panicked, lastEv, hist, cfg, lib, ticksLeft,
                 fsOpsLeft, closesLeft>>

\* determineInitialState: fs.Stat of the current name, and the map entry on
\* success
InitStat(g) ==
  LET r == th[g]
      name == CurName(r)
  IN
  /\ panicked = NoPanic
  /\ r.pc = "init_stat"
  /\ \E ok \in StatOutcomes(name), race \in MapOutcomes(g) :
       /\ panicked' = IF race = "fatal" THEN ConcurrentMapWrites ELSE NoPanic
       /\ modtimes' = IF race = "fatal" \/ ~ok THEN modtimes
                      ELSE Seed(modtimes, name, fsys[name])
       /\ faultsLeft' = IF race = "fatal" THEN faultsLeft ELSE AfterStatOf(name, ok)
       /\ th' = IF race = "fatal" THEN th
                ELSE IF ok
                  THEN [th EXCEPT ![g] = [r EXCEPT !.seen[name] = fsys[name],
                                                   !.i = r.i + 1,
                                                   !.pc = AfterInitStat(r)]]
                  ELSE [th EXCEPT ![g] = [r EXCEPT !.seen[name] = -1,
                                                   !.initErr = TRUE,
                                                   !.pend = StatError(name),
                                                   !.pc = "init_send_err"]]
  /\ UNCHANGED <<fsys, c, errors, cClosed, errorsClosed, closeClosed, closedClosed,
                 ctxDone, cl, lastEv, hist, cfg, lib, ticksLeft, fsOpsLeft, closesLeft>>

\* determineInitialState: w.errors <- err; continue
InitSendErr(g) ==
  LET r == th[g] IN
  /\ panicked = NoPanic
  /\ r.pc = "init_send_err"
  /\ CanSend(errors, errorsClosed)
  /\ panicked' = IF errorsClosed THEN SendOnClosed ELSE NoPanic
  /\ errors' = IF errorsClosed THEN errors ELSE Append(errors, r.pend)
  /\ hist' = IF errorsClosed THEN hist ELSE Sent("errors", r.pend)
  /\ th' = IF errorsClosed THEN th
           ELSE [th EXCEPT ![g] = [r EXCEPT !.errs = Append(r.errs, r.pend),
                                            !.pend = NoEvent,
                                            !.i = r.i + 1,
                                            !.pc = AfterInitStat(r)]]
  /\ UNCHANGED <<fsys, modtimes, c, cClosed, errorsClosed, closeClosed, closedClosed,
                 ctxDone, cl, lastEv, cfg, lib, ticksLeft, fsOpsLeft, faultsLeft, closesLeft>>

\* StartContext: determineInitialState returned nil; the ticker is created,
\* the goroutine is started and StartContext returns nil
Spawn(g) ==
  /\ panicked = NoPanic
  /\ th[g].pc = "spawn"
  /\ th' = [th EXCEPT ![g] = Idle(th[g])]
  /\ UNCHANGED <<fsys, modtimes, c, errors, cClosed, errorsClosed, closeClosed,
                 closedClosed, ctxDone, cl, panicked, lastEv, hist, cfg, lib, ticksLeft,
                 fsOpsLeft, faultsLeft, closesLeft>>

\* the goroutine's select takes <-ticker.C: detectChanges up to its GlobFS
Tick(g) ==
  LET r == th[g]
      begun == [r EXCEPT !.pre = modtimes]
  IN
  /\ panicked = NoPanic
  /\ r.pc = "select"
  /\ ticksLeft > 0
  /\ ticksLeft' = ticksLeft - 1
  /\ \E walkOk \in WalkOutcomes :
       /\ th' = [th EXCEPT ![g] =
                   IF walkOk
                     THEN [begun EXCEPT !.names = GlobFS(wpat, fsys),
                                       !.i = 1,
                                       !.pc = IF GlobFS(wpat, fsys) = <<>> THEN "del" ELSE "stat"]
                     ELSE [begun EXCEPT !.walkErr = TRUE,
                                       !.pend = WalkError,
                                       !.pc = "send_walkerr"]]
       /\ faultsLeft' = AfterWalk(walkOk)
  /\ UNCHANGED <<fsys, modtimes, c, errors, cClosed, errorsClosed, closeClosed,
                 closedClosed, ctxDone, cl, panicked, lastEv, hist, cfg, lib, fsOpsLeft, closesLeft>>

\* a detectChanges that goes on to its loops after the error of GlobFS
AfterWalkErrNoReturn == "del"

\* the position after detectChanges sent the error of GlobFS: return
AfterWalkErr == "ret"

\* detectChanges: w.errors <- fmt.Errorf("failed to detect changes: %w", err); return
SendWalkErr(g) ==
  LET r == th[g] IN
  /\ panicked = NoPanic
  /\ r.pc = "send_walkerr"
  /\ CanSend(errors, errorsClosed)
  /\ panicked' = IF errorsClosed THEN SendOnClosed ELSE NoPanic
  /\ errors' = IF errorsClosed THEN errors ELSE Append(errors, r.pend)
  /\ hist' = IF errorsClosed THEN hist ELSE Sent("errors", r.pend)
  /\ th' = IF errorsClosed THEN th
           ELSE [th EXCEPT ![g] = [r EXCEPT !.errs = Append(r.errs, r.pend),
                                            !.pend = NoEvent,
                                            !.pc = AfterWalkErr]]
  /\ UNCHANGED <<fsys, modtimes, c, cClosed, errorsClosed, closeClosed, closedClosed,
                 ctxDone, cl, lastEv, cfg, lib, ticksLeft, fsOpsLeft, faultsLeft, closesLeft>>

\* a comparison that takes an equal modification time for a later one
CompareNotBefore(got, mt, name) ==
  IF got = 0 THEN [entry |-> mt, ev |-> Event(Created, name)]
  ELSE IF mt >= got THEN [entry |-> mt, ev |-> Event(Modified, name)]
  ELSE [entry |-> got, ev |-> NoEvent]

\* what the first loop of detectChanges does with a name once fs.Stat
\* returned modification time mt and the map holds got (0: no entry): the new
\* entry and the event to send (NoEvent: none)
Compare(got, mt, name) ==
  IF got = 0 THEN [entry |-> mt, ev |-> Event(Created, name)]
  ELSE IF mt > got THEN [entry |-> mt, ev |-> Event(Modified, name)]
  ELSE [entry |-> got, ev |-> NoEvent]

\* a first loop that enters a name in foundNames only when fs.Stat succeeded
FoundIfStatOk(found, name, ok) == IF ok THEN found \cup {name} ELSE found

\* foundNames after the iteration for name (the entry is made before fs.Stat)
FoundAfter(found, name, ok) == found \cup {name}

\* detectChanges, first loop: foundNames[name], fs.Stat, the comparison with
\* the map and the update of the map
Stat(g) ==
  LET r == th[g]
      name == CurName(r)
      d == Compare(modtimes[name], fsys[name], name)
  IN
  /\ panicked = NoPanic
  /\ r.pc = "stat"
  /\ \E ok \in StatOutcomes(name), race \in MapOutcomes(g) :
       /\ panicked' = IF race = "fatal" THEN ConcurrentMapWrites ELSE NoPanic
       /\ modtimes' = IF race = "fatal" \/ ~ok THEN modtimes
                      ELSE [modtimes EXCEPT ![name] = d.entry]
       /\ faultsLeft' = IF race = "fatal" THEN faultsLeft ELSE AfterStatOf(name, ok)
       /\ th' = IF race = "fatal" THEN th
                ELSE IF ~ok
                  THEN [th EXCEPT ![g] = [r EXCEPT !.found = FoundAfter(r.found, name, ok),
                                                   !.seen[name] = -1,
                                                   !.pend = StatError(name),
                                                   !.pc = "send_err"]]
                ELSE IF d.ev = NoEvent
                  THEN [th EXCEPT ![g] = [r EXCEPT !.found = FoundAfter(r.found, name, ok),
                                                   !.seen[name] = fsys[name],
                                                   !.i = r.i + 1,
                                                   !.pc = AfterStat(r)]]
                  ELSE [th EXCEPT ![g] = [r EXCEPT !.found = FoundAfter(r.found, name, ok),
                                                   !.seen[name] = fsys[name],
                                                   !.pend = d.ev,
                                                   !.pc = "send_ev"]]
  /\ UNCHANGED <<fsys, c, errors, cClosed, errorsClosed, closeClosed, closedClosed,
                 ctxDone, cl, lastEv, hist, cfg, lib, ticksLeft, fsOpsLeft, closesLeft>>

\* detectChanges, first loop: w.c <- Event{Created or Modified}; continue
SendEvent(g) ==
  LET r == th[g] IN
  /\ panicked = NoPanic
  /\ r.pc = "send_ev"
  /\ CanSend(c, cClosed)
  /\ panicked' = IF cClosed THEN SendOnClosed ELSE NoPanic
  /\ c' = IF cClosed THEN c ELSE Append(c, r.pend)
  /\ hist' = IF cClosed THEN hist ELSE Sent("c", r.pend)
  /\ lastEv' = IF cClosed THEN lastEv ELSE [lastEv EXCEPT ![r.pend.Path] = r.pend.Type]
  /\ th' = IF cClosed THEN th
           ELSE [th EXCEPT ![g] = [r EXCEPT !.out = Append(r.out, r.pend),
                                            !.pend = NoEvent,
                                            !.i = r.i + 1,
                                            !.pc = AfterStat(r)]]
  /\ UNCHANGED <<fsys, modtimes, errors, cClosed, errorsClosed, closeClosed, closedClosed,
                 ctxDone, cl, cfg, lib, ticksLeft, fsOpsLeft, faultsLeft, closesLeft>>

\* detectChanges, first loop: w.errors <- err; continue
SendErr(g) ==
  LET r == th[g] IN
  /\ panicked = NoPanic
  /\ r.pc = "send_err"
  /\ CanSend(errors, errorsClosed)
  /\ panicked' = IF errorsClosed THEN SendOnClosed ELSE NoPanic
  /\ errors' = IF errorsClosed THEN errors ELSE Append(errors, r.pend)
  /\ hist' = IF errorsClosed THEN hist ELSE Sent("errors", r.pend)
  /\ th' = IF errorsClosed THEN th
           ELSE [th EXCEPT ![g] = [r EXCEPT !.errs = Append(r.errs, r.pend),
                                            !.pend = NoEvent,
                                            !.i = r.i + 1,
                                            !.pc = AfterStat(r)]]
  /\ UNCHANGED <<fsys, modtimes, c, cClosed, errorsClosed, closeClosed, closedClosed,
                 ctxDone, cl, lastEv, cfg, lib, ticksLeft, fsOpsLeft, faultsLeft, closesLeft>>

\* a second loop that does not consult foundNames
ToDeleteAll(m, found) == {n \in Files : m[n] # 0}

\* the entries the second loop of detectChanges still deletes
ToDelete(m, found) == {n \in Files : m[n] # 0 /\ n \notin found}

\* a second loop that leaves the entry in the map
WithEntryKept(m, n) == m

\* delete(w.modtimes, n)
WithoutEntry(m, n) == [m EXCEPT ![n] = 0]

\* detectChanges, second loop: the next entry of the map that was not found
\* (a map is ranged over in no particular order) is deleted, or the loop and
\* detectChanges end
Del(g) ==
  LET r == th[g]
      del == ToDelete(modtimes, r.found)
  IN
  /\ panicked = NoPanic
  /\ r.pc = "del"
  /\ \E race \in MapOutcomes(g), n \in IF del = {} THEN {<<>>} ELSE del :
       /\ panicked' = IF race = "fatal" THEN ConcurrentMapWrites ELSE NoPanic
       /\ modtimes' = IF race = "fatal" \/ del = {} THEN modtimes
                      ELSE WithoutEntry(modtimes, n)
       /\ th' = IF race = "fatal" THEN th
                ELSE IF del = {}
                  THEN [th EXCEPT ![g] = [r EXCEPT !.pc = "ret"]]
                  ELSE [th EXCEPT ![g] = [r EXCEPT !.pend = Event(Deleted, n),
                                                   !.pc = "send_del"]]
  /\ UNCHANGED <<fsys, c, errors, cClosed, errorsClosed, closeClosed, closedClosed,
                 ctxDone, cl, lastEv, hist, cfg, lib, ticksLeft, fsOpsLeft, faultsLeft, closesLeft>>

\* detectChanges, second loop: w.c <- Event{Deleted}
SendDeleted(g) ==
  LET r == th[g] IN
  /\ panicked = NoPanic
  /\ r.pc = "send_del"
  /\ CanSend(c, cClosed)
  /\ panicked' = IF cClosed THEN SendOnClosed ELSE NoPanic
  /\ c' = IF cClosed THEN c ELSE Append(c, r.pend)
  /\ hist' = IF cClosed THEN hist ELSE Sent("c", r.pend)
  /\ lastEv' = IF cClosed THEN lastEv ELSE [lastEv EXCEPT ![r.pend.Path] = r.pend.Type]
  /\ th' = IF cClosed THEN th
           ELSE [th EXCEPT ![g] = [r EXCEPT !.out = Append(r.out, r.pend),
                                            !.pend = NoEvent,
                                            !.pc = "del"]]
  /\ UNCHANGED <<fsys, modtimes, errors, cClosed, errorsClosed, closeClosed, closedClosed,
                 ctxDone, cl, cfg, lib, ticksLeft, fsOpsLeft, faultsLeft, closesLeft>>

\* detectChanges returns: the goroutine is back at its select
Return(g) ==
  /\ panicked = NoPanic
  /\ th[g].pc = "ret"
  /\ th' = [th EXCEPT ![g] = Idle(th[g])]
  /\ UNCHANGED <<fsys, modtimes, c, errors, cClosed, errorsClosed, closeClosed,
                 closedClosed, ctxDone, cl, panicked, lastEv, hist, cfg, lib, ticksLeft,
                 fsOpsLeft, faultsLeft, closesLeft>>

\* a select without the case <-ctx.Done()
ExitOnCloseOnly == closeClosed

\* the cases of the goroutine's select that make it return
ExitReady == closeClosed \/ ctxDone

\* the goroutine's select takes <-w.close or <-ctx.Done(): return
Exit(g) ==
  /\ panicked = NoPanic
  /\ th[g].pc = "select"
  /\ ExitReady
  /\ th' = [th EXCEPT ![g].pc = "defer_1"]
  /\ UNCHANGED <<fsys, modtimes, c, errors, cClosed, errorsClosed, closeClosed,
                 closedClosed, ctxDone, cl, panicked, lastEv, hist, cfg, lib, ticksLeft,
                 fsOpsLeft, faultsLeft, closesLeft>>

\* The deferred calls in the order they run, last in, first out:
\* close(w.closed), close(w.errors), close(w.c) (and ticker.Stop())
Deferred == <<"closed", "errors", "c">>

\* close(ch): a panic when ch is closed already
Defer(g, k, ch) ==
  LET isClosed == CASE ch = "closed" -> closedClosed
                    [] ch = "errors" -> errorsClosed
                    [] ch = "c" -> cClosed
  IN
  /\ panicked = NoPanic
  /\ panicked' = IF isClosed THEN CloseOfClosed ELSE NoPanic
  /\ closedClosed' = (closedClosed \/ ch = "closed")
  /\ errorsClosed' = (errorsClosed \/ ch = "errors")
  /\ cClosed' = (cClosed \/ ch = "c")
  /\ th' = IF isClosed THEN th
           ELSE [th EXCEPT ![g].pc = CASE k = 1 -> "defer_2"
                                       [] k = 2 -> "defer_3"
                                       [] k = 3 -> "done"]
  /\ UNCHANGED <<fsys, modtimes, c, errors, closeClosed, ctxDone, cl, lastEv, hist, cfg, lib,
                 ticksLeft, fsOpsLeft, faultsLeft, closesLeft>>

\* the goroutine's first, second and third deferred call
Defer1(g) == th[g].pc = "defer_1" /\ Defer(g, 1, Deferred[1])
Defer2(g) == th[g].pc = "defer_2" /\ Defer(g, 2, Deferred[2])
Defer3(g) == th[g].pc = "defer_3" /\ Defer(g, 3, Deferred[3])

\* Close: close(w.close)
CloseCall ==
  /\ panicked = NoPanic
  /\ closesLeft > 0
  /\ closesLeft' = closesLeft - 1
  /\ panicked' = IF closeClosed THEN CloseOfClosed ELSE NoPanic
  /\ closeClosed' = TRUE
  /\ cl' = IF closeClosed THEN cl ELSE [cl EXCEPT !.waiting = @ + 1]
  /\ UNCHANGED <<fsys, modtimes, c, errors, cClosed, errorsClosed, closedClosed,
                 ctxDone, th, lastEv, hist, cfg, lib, ticksLeft, fsOpsLeft, faultsLeft>>

\* a Close that does not wait for the goroutine
ClosedReadableAlways == TRUE

\* <-w.closed can proceed: the channel is closed (nothing is ever sent on it)
ClosedReadable == closedClosed

\* Close: <-w.closed, and Close returns
CloseReturn ==
  /\ panicked = NoPanic
  /\ cl.waiting > 0
  /\ ClosedReadable
  /\ cl' = [waiting |-> cl.waiting - 1, returned |-> cl.returned + 1]
  /\ UNCHANGED <<fsys, modtimes, c, errors, cClosed, errorsClosed, closeClosed,
                 closedClosed, ctxDone, th, panicked, lastEv, hist, cfg, lib, ticksLeft,
                 fsOpsLeft, faultsLeft, closesLeft>>

Next ==
  \/ \E f \in Files, t \in 1..MaxTime : FsTouch(f, t)
  \/ \E f \in Files : FsRm(f)
  \/ \E f \in Files, to \in Files : FsMv(f, to)
  \/ \E dir \in Dirs : FsRmDir(dir)
  \/ CtxCancel
  \/ RecvC
  \/ RecvErr
  \/ \E g \in Threads :
       \/ StartCall(g)
       \/ InitStat(g)
       \/ InitSendErr(g)
       \/ Spawn(g)
       \/ Tick(g)
       \/ SendWalkErr(g)
       \/ Stat(g)
       \/ SendEvent(g)
       \/ SendErr(g)
       \/ Del(g)
       \/ SendDeleted(g)
       \/ Return(g)
       \/ Exit(g)
       \/ Defer1(g)
       \/ Defer2(g)
       \/ Defer3(g)
  \/ CloseCall
  \/ CloseReturn

\* a watcher used as documented: started (until Start succeeds) once
Spec == Init /\ [][Next]_vars

\* A watcher that is used again: Start is called a second time, at any time,
\* also while the first goroutine runs and after Close.  It polls, with
\* ReuseTicks ticks and ReuseFsOps changes of the file system, or is shut down.
ReuseTicks == 1
ReuseFsOps == 1

InitReusePolling ==
  /\ mayCancel = FALSE
  /\ ticksLeft = ReuseTicks
  /\ fsOpsLeft = ReuseFsOps
  /\ faultsLeft = MaxFaults
  /\ closesLeft = 0

InitReuse ==
  /\ InitWatcher
  /\ InitFs
  /\ InitLib
  /\ tracing = FALSE
  /\ usage = "any"
  /\ InitReusePolling \/ InitShutdown

SpecReuse == InitReuse /\ [][Next]_vars

\* A watcher that is started (until Start succeeds) once and shut down once.
\* It is either new, or it has been running for some time without its
\* consumers receiving anything: there were ChanCap ticks between which the
\* file t was created and removed in turn and ChanCap ticks whose walk
\* failed, and the buffer of c, or the buffers of c and of errors, are full.
Backlog(fs) ==
  [k \in 1..ChanCap |->
     Event(IF (k % 2 = 0) = (fs[<<"t">>] # 0) THEN Created ELSE Deleted, <<"t">>)]

ErrBacklog == [k \in 1..ChanCap |-> WalkError]

InitBehind(errBuf) ==
  /\ hist = [NoHist EXCEPT !["c"].sent = Backlog(fsys), !["errors"].sent = errBuf]
  /\ modtimes = [f \in Files |-> IF Match(wpat, f) THEN fsys[f] ELSE 0]
  /\ c = Backlog(fsys)
  /\ errors = errBuf
  /\ cClosed = FALSE
  /\ errorsClosed = FALSE
  /\ closeClosed = FALSE
  /\ closedClosed = FALSE
  /\ ctxDone = FALSE
  /\ th = [g \in Threads |-> IF g = 1 THEN Idle(NewThread) ELSE NewThread]
  /\ cl = [waiting |-> 0, returned |-> 0]
  /\ panicked = NoPanic
  /\ lastEv = [f \in Files |-> IF f = <<"t">> THEN Backlog(fsys)[ChanCap].Type ELSE "none"]

InitOnce ==
  /\ InitFs
  /\ InitLib
  /\ usage = "once"
  /\ mayCancel = TRUE
  /\ ticksLeft = ShutTicks
  /\ fsOpsLeft = ShutFsOps
  /\ faultsLeft = MaxFaults
  /\ closesLeft = 1

\* new, or with the buffer of c full
InitLive ==
  /\ InitOnce
  /\ InitWatcher \/ InitBehind(<<>>)
  /\ tracing = FALSE

\* new, or with both buffers full; the history of the channels is kept
InitTraced ==
  /\ InitOnce
  /\ InitWatcher \/ InitBehind(ErrBacklog)
  /\ tracing = TRUE

SpecTraced == InitTraced /\ [][Next]_vars

\* the steps a call of Start and its goroutine take by themselves
Step(g) ==
  \/ InitStat(g)
  \/ InitSendErr(g)
  \/ Spawn(g)
  \/ SendWalkErr(g)
  \/ Stat(g)
  \/ SendEvent(g)
  \/ SendErr(g)
  \/ Del(g)
  \/ SendDeleted(g)
  \/ Return(g)
  \/ Defer1(g)
  \/ Defer2(g)
  \/ Defer3(g)

\* Goroutines that can run do run, and the consumers receive what is in the
\* buffers.  A select with several ready cases takes one of them at random:
\* a case that is ready again and again (<-w.close, <-ctx.Done()) is taken in
\* the end, whatever the ticker does.
LiveSpec ==
  /\ InitLive
  /\ [][Next]_vars
  /\ WF_vars(RecvC)
  /\ WF_vars(RecvErr)
  /\ WF_vars(CloseReturn)
  /\ \A g \in Threads : WF_vars(Step(g)) /\ SF_vars(Exit(g))

\* a shutdown in which the walk of Start may fail: Close and the
\* cancellation may come before Start, after a failed Start, or later
FaultyTicks == 1
FaultyFsOps == 1
FaultyCloses == 1

InitFaultyShutdown ==
  /\ InitWatcher
  /\ InitFs
  /\ InitLib
  /\ tracing = FALSE
  /\ usage = "once"
  /\ mayCancel = TRUE
  /\ ticksLeft = FaultyTicks
  /\ fsOpsLeft = FaultyFsOps
  /\ faultsLeft = MaxFaults
  /\ closesLeft = FaultyCloses

SpecFaultyShutdown == InitFaultyShutdown /\ [][Next]_vars

(***************************************************************************)
(* Package pattern used by itself: a pattern is compiled and a path is     *)
(* matched against it                                                      *)
(***************************************************************************)
\* the longest pattern text taken from PatAlphabet
MaxPatLen == 4
\* the most items (runes, ranges) in a group
MaxGroupItems == 3
\* the longest rest R of a pattern **/R
MaxRestLen == 3
\* the longest path taken from PathAlphabet
MaxPathLen == 5

\* the strings over alphabet A of length n at most
Strings(A, n) == UNION {[1..k -> A] : k \in 0..n}

RECURSIVE Concat(_)
Concat(ss) == IF ss = <<>> THEN <<>> ELSE Head(ss) \o Concat(Tail(ss))

PatAlphabet == {"*", "/", "?", "a", "[", "]", "\\"}
RestAlphabet == {"*", "/", "?", "a", "m"}
PathAlphabet == {"a", "m", "/"}
GroupItems == {<<"a">>, <<"x">>, <<"a", "-", "d">>, <<"m", "-", "t">>, <<"\\", "]">>}

\* patterns that are one group
GroupPatterns ==
  {<<"[">> \o neg \o Concat(items) \o <<"]">> :
     neg \in {<<>>, <<"^">>}, items \in Strings(GroupItems, MaxGroupItems)}

\* patterns **/R
DirPatterns ==
  {<<"*", "*", "/">> \o R : R \in Strings(RestAlphabet, MaxRestLen) \ {<<>>}}

\* the longest text after the [ of a group text
MaxGroupLen == 4

GroupAlphabet == {"*", "-", "\\", "]", "^", "a", "x"}

\* a [ followed by any text: groups that are well formed, malformed or open
GroupTexts == {<<"[">> \o b : b \in Strings(GroupAlphabet, MaxGroupLen)}

Patterns ==
  Strings(PatAlphabet, MaxPatLen) \cup GroupPatterns \cup DirPatterns \cup GroupTexts

\* the longest path with runes that are operators in a pattern
MaxOperatorPathLen == 3

OperatorPathAlphabet == {"*", "?", "a", "/"}

Paths ==
  Strings(PathAlphabet, MaxPathLen)
    \cup {<<r>> : r \in {"d", "t", "x", "]", "-", "*", "?", "^", "[", "\\"}}
    \cup Strings(OperatorPathAlphabet, MaxOperatorPathLen)

\* no watcher is used
InitPattern ==
  /\ InitWatcher
  /\ fsys = [f \in Files |-> 0]
  /\ tracing = FALSE
  /\ usage = "once"
  /\ mayCancel = FALSE
  /\ ticksLeft = 0
  /\ fsOpsLeft = 0
  /\ faultsLeft = 0
  /\ closesLeft = 0
  /\ libpc = "new"
  /\ src \in Patterns
  /\ compiled = PatErr
  /\ path = <<>>
  /\ result = "none"
  /\ calls = NoCalls
  /\ again = NotAgain
  /\ glob = NoGlob

\* pat, err := pattern.New(src)
Compile ==
  /\ libpc = "new"
  /\ libpc' = "compiled"
  /\ compiled' = New(src)
  /\ UNCHANGED <<src, path, result, calls, again, glob, fsys, watcher, ctxDone, cl,
                 cfg, ticksLeft, fsOpsLeft, faultsLeft, closesLeft>>

\* pat.Match(f), for a pattern that New returned without error
MatchCall(f) ==
  /\ libpc = "compiled"
  /\ compiled.ok
  /\ libpc' = "matched"
  /\ path' = f
  /\ result' = match(f, compiled.tokens)
  /\ UNCHANGED <<src, compiled, calls, again, glob, fsys, watcher, ctxDone, cl, cfg,
                 ticksLeft, fsOpsLeft, faultsLeft, closesLeft>>

NextPattern ==
  \/ Compile
  \/ \E f \in Paths : MatchCall(f)

SpecPattern == InitPattern /\ [][NextPattern]_vars

(***************************************************************************)
(* Package pattern used concurrently: match step by step, one frame per    *)
(* call of match, for several callers of Match on one compiled pattern     *)
(***************************************************************************)
\* the longest path given to the concurrent calls
MaxCallPathLen == 3

CallPathAlphabet == {"a", "/"}
CallPaths == Strings(CallPathAlphabet, MaxCallPathLen)

\* *a, a*/?, **/*a, [^a]*
CallPatterns ==
  { <<"*", "a">>,
    <<"a", "*", "/", "?">>,
    <<"*", "*", "/", "*", "a">>,
    <<"[", "^", "a", "]", "*">> }

\* a frame of match(f, t): t is the number of tokens that the slice t of the
\* frame has left behind, pc "loop" (the head of the for loop) or the call the
\* frame waits for, off the offset le+l2 behind the skipped directory
Frame(f, t) == [f |-> f, t |-> t, pc |-> "loop", off |-> 0]

\* a slice that is never moved on
ResliceNone(t, k) == t

\* t[k:], for the slice that has left t tokens behind
Reslice(t, k) == t + k

Top(cr) == cr.stack[Len(cr.stack)]

\* return v from the innermost frame
Ret(cr, v) ==
  IF Len(cr.stack) = 1
    THEN [cr EXCEPT !.st = "done", !.stack = <<>>, !.ret = v, !.result = v]
    ELSE [cr EXCEPT !.stack = SubSeq(cr.stack, 1, Len(cr.stack) - 1), !.ret = v]

\* a run time panic unwinds every frame
Fault(cr) == [cr EXCEPT !.st = "done", !.stack = <<>>, !.ret = "P", !.result = "P"]

\* the innermost frame goes on as fr
Goto(cr, fr) == [cr EXCEPT !.stack[Len(cr.stack)] = fr]

\* the innermost frame, now fr, calls match: the frame callee is pushed
CallMatch(cr, fr, callee) ==
  [cr EXCEPT !.stack = SubSeq(cr.stack, 1, Len(cr.stack) - 1) \o <<fr, callee>>]

\* one step of the call cr of Match on the tokens of the pattern: from the
\* head of the for loop, or from the return of a call of match, to the next
\* call, return or turn of the loop
StepCall(cr, tokens) ==
  LET fr == Top(cr)
      f == fr.f
      t == From(tokens, fr.t)
      le == DecodeLen(f)
      r == DecodeRune(f)
      adv == [fr EXCEPT !.pc = "loop", !.f = From(f, le), !.t = Reslice(fr.t, 1)]
  IN
  CASE fr.pc = "loop" ->
         IF Len(f) = 0
           THEN IF Len(t) = 0 THEN Ret(cr, "T")
                ELSE IF Len(t) = 1 /\ t[1].t = tokenTypeAnyRunes THEN Ret(cr, "T")
                ELSE Ret(cr, "F")
         ELSE IF Len(t) = 0 THEN Ret(cr, TokensExhausted)
         ELSE
           (CASE t[1].t = tokenTypeLiteral ->
                  IF t[1].r # r THEN Ret(cr, "F") ELSE Goto(cr, adv)
             [] t[1].t = tokenTypeGroup ->
                  IF ~GroupMatch(t[1].g, r) THEN Ret(cr, "F") ELSE Goto(cr, adv)
             [] t[1].t = tokenTypeSingleRune ->
                  IF WildcardStop(r) THEN Ret(cr, "F") ELSE Goto(cr, adv)
             [] t[1].t = tokenTypeAnyRunes ->
                  IF WildcardStop(r)
                    THEN CallMatch(cr, [fr EXCEPT !.pc = "tail"],
                                   Frame(f, Reslice(fr.t, 1)))
                    ELSE CallMatch(cr, [fr EXCEPT !.pc = "star1"],
                                   Frame(From(f, le), fr.t))
             [] t[1].t = tokenTypeAnyDirectories ->
                  IF Len(t) < 2 THEN Fault(cr)
                  ELSE CallMatch(cr, [fr EXCEPT !.pc = "dir1"],
                                 Frame(f, Reslice(fr.t, 2))))
    [] fr.pc = "star1" ->
         IF cr.ret = "T" THEN Ret(cr, "T")
         ELSE CallMatch(cr, [fr EXCEPT !.pc = "star2"], Frame(f, Reslice(fr.t, 1)))
    [] fr.pc = "star2" ->
         IF cr.ret = "T" THEN Ret(cr, "T") ELSE Goto(cr, adv)
    [] fr.pc = "dir1" ->
         IF cr.ret = "T" THEN Ret(cr, "T")
         ELSE LET off == SkipSegment(f, le)
              IN IF off = -1 THEN Ret(cr, "F")
                 ELSE CallMatch(cr, [fr EXCEPT !.pc = "dir2", !.off = off],
                                Frame(From(f, off), Reslice(fr.t, 2)))
    [] fr.pc = "dir2" ->
         IF cr.ret = "T" THEN Ret(cr, "T")
         ELSE CallMatch(cr, [fr EXCEPT !.pc = "tail"], Frame(From(f, fr.off), fr.t))
    [] fr.pc = "tail" -> Ret(cr, cr.ret)

\* no watcher is used; the pattern is one of CallPatterns
InitCalls ==
  /\ InitWatcher
  /\ fsys = [f \in Files |-> 0]
  /\ tracing = FALSE
  /\ usage = "once"
  /\ mayCancel = FALSE
  /\ ticksLeft = 0
  /\ fsOpsLeft = 0
  /\ faultsLeft = 0
  /\ closesLeft = 0
  /\ libpc = "new"
  /\ src \in CallPatterns
  /\ compiled = PatErr
  /\ path = <<>>
  /\ result = "none"
  /\ calls = NoCalls
  /\ again = NotAgain
  /\ glob = NoGlob

\* a second pattern.New(src)
CompileAgain ==
  /\ libpc = "compiled"
  /\ ~again.done
  /\ again' = [done |-> TRUE, pat |-> New(src)]
  /\ UNCHANGED <<libpc, src, compiled, path, result, calls, glob, fsys, watcher,
                 ctxDone, cl, cfg, ticksLeft, fsOpsLeft, faultsLeft, closesLeft>>

\* caller q calls pat.Match(f)
MatchStart(q, f) ==
  /\ libpc = "compiled"
  /\ compiled.ok
  /\ calls[q].st = "idle"
  /\ calls' = [calls EXCEPT ![q] = [NoCall EXCEPT !.st = "running", !.f = f,
                                                  !.stack = <<Frame(f, 0)>>]]
  /\ UNCHANGED <<libpc, src, compiled, path, result, again, glob, fsys, watcher,
                 ctxDone, cl, cfg, ticksLeft, fsOpsLeft, faultsLeft, closesLeft>>

\* the call of caller q takes a step; it reads pat.tokens
MatchStep(q) ==
  /\ calls[q].st = "running"
  /\ calls' = [calls EXCEPT ![q] = StepCall(calls[q], compiled.tokens)]
  /\ UNCHANGED <<libpc, src, compiled, path, result, again, glob, fsys, watcher,
                 ctxDone, cl, cfg, ticksLeft, fsOpsLeft, faultsLeft, closesLeft>>

NextCalls ==
  \/ Compile
  \/ CompileAgain
  \/ \E q \in Callers, f \in CallPaths : MatchStart(q, f)
  \/ \E q \in Callers : MatchStep(q)

SpecCalls == InitCalls /\ [][NextCalls]_vars

(***************************************************************************)
(* Pattern.GlobFS used by itself, on a tree and a root                     *)
(***************************************************************************)
\* the root "."
Dot == <<".">>

\* the roots given to GlobFS: "." and the directory d
GlobRoots == {Dot} \cup Dirs

\* *, ?, **/*t, d/*, */t, /*, /t, m
GlobPatterns ==
  { <<"*">>, <<"?">>, WatchPattern, <<"d", "/", "*">>, <<"*", "/", "t">>,
    <<"/", "*">>, <<"/", "t">>, <<"m">> }

\* what fs.WalkDir may visit, in its order: the directory d, its files, the
\* files m and t
WalkOrder ==
  <<[p |-> <<"d">>, dir |-> TRUE]>> \o [k \in 1..Len(Tree) |-> [p |-> Tree[k], dir |-> FALSE]]

\* the entry e is in the file system fs (a directory is there with its files)
EntryExists(fs, e) ==
  IF e.dir THEN \E f \in Files : IsUnder(f, e.p) /\ fs[f] # 0
  ELSE fs[e.p] # 0

\* fs.WalkDir(fsys, root, fn): the entries fn is called for, the root first
WalkDir(fs, root) ==
  IF root = Dot
    THEN <<[p |-> Dot, dir |-> TRUE]>> \o SelectSeq(WalkOrder, LAMBDA e : EntryExists(fs, e))
    ELSE SelectSeq(WalkOrder,
                   LAMBDA e : EntryExists(fs, e) /\ (e.p = root \/ IsUnder(e.p, root)))

\* strings.Replace(p, old, "", 1): p without the first occurrence of old
ReplaceFirst(p, old) ==
  LET n == Len(old)
      at == {i \in 1..(Len(p) - n + 1) : SubSeq(p, i, i + n - 1) = old}
  IN IF at = {} THEN p
     ELSE LET i == CHOOSE i \in at : \A j \in at : i <= j
          IN SubSeq(p, 1, i - 1) \o SubSeq(p, i + n, Len(p))

\* a walk function that takes directories for files
IsDirNever(e) == FALSE

\* d.IsDir()
IsDir(e) == e.dir

\* the function GlobFS gives to fs.WalkDir, called for entry e without error
WalkDirFunc(pat, root, results, e) ==
  IF IsDir(e) THEN results
  ELSE LET q == IF root # Dot /\ root # <<>> THEN ReplaceFirst(e.p, root) ELSE e.p
       IN IF Match(pat, q) THEN Append(results, q) ELSE results

RECURSIVE WalkAll(_, _, _, _)
WalkAll(pat, root, results, es) ==
  IF es = <<>> THEN results
  ELSE WalkAll(pat, root, WalkDirFunc(pat, root, results, Head(es)), Tail(es))

\* Pattern.GlobFS(fsys, root), for a walk without I/O error
GlobFSRoot(pat, fs, root) == WalkAll(pat, root, <<>>, WalkDir(fs, root))

\* no watcher is used; any of the files of the tree may exist
InitGlob ==
  /\ InitWatcher
  /\ fsys \in [Files -> {0, 1}]
  /\ tracing = FALSE
  /\ usage = "once"
  /\ mayCancel = FALSE
  /\ ticksLeft = 0
  /\ fsOpsLeft = 0
  /\ faultsLeft = 0
  /\ closesLeft = 0
  /\ libpc = "new"
  /\ src \in GlobPatterns
  /\ compiled = PatErr
  /\ path = <<>>
  /\ result = "none"
  /\ calls = NoCalls
  /\ again = NotAgain
  /\ glob = NoGlob

\* files, err := pat.GlobFS(fsys, root)
Glob(root) ==
  /\ libpc = "compiled"
  /\ compiled.ok
  /\ ~glob.done
  /\ glob' = [done |-> TRUE, root |-> root, out |-> GlobFSRoot(compiled, fsys, root)]
  /\ UNCHANGED <<libpc, src, compiled, path, result, calls, again, fsys, watcher,
                 ctxDone, cl, cfg, ticksLeft, fsOpsLeft, faultsLeft, closesLeft>>

NextGlob ==
  \/ Compile
  \/ \E root \in GlobRoots : Glob(root)

SpecGlob == InitGlob /\ [][NextGlob]_vars

(***************************************************************************)
(* Properties                                                              *)
(***************************************************************************)
\* positions of a call of Start before the goroutine exists
InitPcs == {"unstarted", "start_failed", "init_stat", "init_send_err", "spawn"}
\* positions of the goroutine inside detectChanges
TickPcs == {"send_walkerr", "stat", "send_ev", "send_err", "del", "send_del", "ret"}
\* positions of the goroutine after it left its loop
ExitPcs == {"defer_1", "defer_2", "defer_3", "done"}
\* positions of the goroutine
LoopPcs == {"select"} \cup TickPcs \cup ExitPcs

Count(seq, e) == Cardinality({k \in 1..Len(seq) : seq[k] = e})
Elems(seq) == {seq[k] : k \in 1..Len(seq)}
Pos(seq, e) == CHOOSE k \in 1..Len(seq) : seq[k] = e
EventsFor(r, name) == {k \in 1..Len(r.out) : r.out[k].Path = name}

\* the names the first loop of the current tick is through with
Handled(r) == {r.names[k] : k \in 1..(r.i - 1)}

\* C1: when Close has returned, the event channel and the error channel are
\* closed.
CloseReturnsWithChannelsClosed ==
  cl.returned > 0 => cClosed /\ errorsClosed

\* C2: in a tick, an enumerated path whose stat succeeds gets exactly one
\* Created and the map its modtime if the map had no entry; exactly one
\* Modified and the map the new modtime if the modtime is strictly later than
\* the stored one; and no event and the stored modtime otherwise.
EventPerEnumeratedPath ==
  \A g \in Threads :
    LET r == th[g] IN
    r.pc \in TickPcs =>
      \A name \in Handled(r) :
        LET cr == Count(r.out, Event(Created, name))
            mo == Count(r.out, Event(Modified, name))
        IN
        r.seen[name] > 0 =>
          /\ r.pre[name] = 0 =>
               cr = 1 /\ mo = 0 /\ modtimes[name] = r.seen[name]
          /\ r.pre[name] # 0 /\ r.seen[name] > r.pre[name] =>
               cr = 0 /\ mo = 1 /\ modtimes[name] = r.seen[name]
          /\ r.pre[name] # 0 /\ r.seen[name] <= r.pre[name] =>
               cr = 0 /\ mo = 0 /\ modtimes[name] = r.pre[name]

\* a tick has sent a Created for one path and a Modified for another
CreatedAndModifiedInOneTick ==
  \E g \in Threads :
    /\ th[g].pc = "ret"
    /\ \E j, k \in 1..Len(th[g].out) :
         th[g].out[j].Type = Created /\ th[g].out[k].Type = Modified

\* C3: a tick whose enumeration succeeds removes from the map each path that
\* is in the map and was not enumerated, and sends exactly one Deleted for it,
\* and sends no Deleted for any other path; a Deleted for a path never follows
\* a Deleted for it without an event for it in between.
DeletedOncePerDisappearance ==
  \A g \in Threads :
    LET r == th[g] IN
    /\ r.pc = "ret" /\ ~r.walkErr =>
         \A n \in Files :
           IF r.pre[n] # 0 /\ n \notin Elems(r.names)
             THEN modtimes[n] = 0 /\ Count(r.out, Event(Deleted, n)) = 1
             ELSE Count(r.out, Event(Deleted, n)) = 0
    /\ r.pc = "send_del" => r.pre[r.pend.Path] # 0 /\ lastEv[r.pend.Path] # Deleted

\* the directory d was removed in one step, and the tick sent a Deleted for
\* each of the two files tracked beneath it
DirectoryRemoved ==
  \E g \in Threads :
    /\ th[g].pc = "ret"
    /\ fsOpsLeft = MaxFsOps - 1
    /\ th[g].pre[<<"d", "/", "a", "t">>] # 0
    /\ th[g].pre[<<"d", "/", "t">>] # 0
    /\ Count(th[g].out, Event(Deleted, <<"d", "/", "a", "t">>)) = 1
    /\ Count(th[g].out, Event(Deleted, <<"d", "/", "t">>)) = 1

\* C4: within a tick no Created or Modified is sent after a Deleted, and the
\* Created and Modified events are sent in the order of the enumeration.
CreatedModifiedBeforeDeleted ==
  \A g \in Threads :
    LET r == th[g] IN
    r.pc \in TickPcs =>
      \A j, k \in 1..Len(r.out) :
        j < k =>
          /\ r.out[j].Type = Deleted => r.out[k].Type = Deleted
          /\ r.out[j].Type # Deleted /\ r.out[k].Type # Deleted =>
               Pos(r.names, r.out[j].Path) < Pos(r.names, r.out[k].Path)

\* a tick that sent two Created or Modified events and then a Deleted
TwoEventsThenDeleted ==
  \E g \in Threads :
    /\ th[g].pc = "ret"
    /\ Len(th[g].out) >= 3
    /\ th[g].out[1].Type # Deleted
    /\ th[g].out[2].Type # Deleted
    /\ th[g].out[3].Type = Deleted

\* C5: a path whose stat fails in a tick gets exactly one error on the error
\* channel and no event, and its map entry stays as it was; and the tick
\* still stats every other enumerated path.
StatFailureSkipsPath ==
  \A g \in Threads :
    LET r == th[g] IN
    /\ r.pc \in TickPcs =>
         \A name \in Handled(r) :
           r.seen[name] = -1 =>
             /\ Count(r.errs, StatError(name)) = 1
             /\ EventsFor(r, name) = {}
             /\ modtimes[name] = r.pre[name]
    /\ r.pc \in {"del", "send_del", "ret"} /\ ~r.walkErr =>
         \A name \in Elems(r.names) : r.seen[name] # 0

\* the stat of a tracked path failed with an I/O error while the file was
\* there, and the tick sent an event for a path enumerated after it
StatFailedAndTickWentOn ==
  \E g \in Threads :
    LET r == th[g] IN
    /\ r.pc = "ret"
    /\ \E j, k \in 1..Len(r.names) :
         /\ j < k
         /\ r.seen[r.names[j]] = -1
         /\ r.pre[r.names[j]] # 0
         /\ fsys[r.names[j]] # 0
         /\ EventsFor(r, r.names[k]) # {}

\* C6: a tick whose walk fails sends exactly one error and no event and
\* leaves the map as it was, and the goroutine leaves its loop only when
\* Close was called or the context is cancelled.
WalkFailureSkipsTick ==
  \A g \in Threads :
    LET r == th[g] IN
    /\ r.walkErr /\ r.pc \in LoopPcs =>
         /\ r.pc \in {"send_walkerr", "ret"}
         /\ r.out = <<>>
         /\ modtimes = r.pre
    /\ r.walkErr /\ r.pc = "ret" => r.errs = <<WalkError>>
    /\ r.pc \in ExitPcs => closeClosed \/ ctxDone

\* the tick after a tick whose walk failed has sent an event
TickAfterFailedWalk ==
  \E g \in Threads :
    /\ th[g].pc \in TickPcs
    /\ th[g].lastWalkErr
    /\ ~th[g].walkErr
    /\ th[g].out # <<>>

\* C7: after an I/O error in the initial state determination no watch loop
\* runs.
InitErrorStartsNoLoop ==
  \A g \in Threads : th[g].initErr => th[g].pc \notin LoopPcs

\* C8: the initial enumeration sends no event; and a tick that sees the files
\* and modtimes the enumeration before it saw, neither meeting an I/O error,
\* sends nothing and leaves the map as it was.
NoEventWithoutChange ==
  /\ (\A g \in Threads : th[g].pc \in InitPcs) =>
       c = <<>> /\ \A f \in Files : lastEv[f] = "none"
  /\ \A g \in Threads :
       LET r == th[g] IN
       /\ r.pc \in InitPcs => r.out = <<>>
       /\ r.pc = "ret" /\ r.lastClean /\ Clean(r) /\ r.seen = r.last =>
            r.out = <<>> /\ r.errs = <<>> /\ modtimes = r.pre

\* a tick after the initial enumeration, and a tick after a tick that sent an
\* event, that saw what the enumeration before saw
QuietTick ==
  \E g \in Threads :
    LET r == th[g] IN
    /\ r.pc = "ret"
    /\ r.lastClean
    /\ Clean(r)
    /\ r.seen = r.last
    /\ r.seen # EmptyMap
    /\ \E f \in Files : lastEv[f] # "none"

\* C9: once Close has returned, no channel is closed a second time or sent to
\* after it was closed.
ClosedIsTerminal ==
  cl.returned > 0 => panicked \notin {CloseOfClosed, SendOnClosed}

\* C10: once Close is called or the context is cancelled, a goroutine that
\* was started exits with both channels closed, and a Close that waits
\* returns.
ShutdownCompletes ==
  /\ (th[1].pc \in LoopPcs /\ (closeClosed \/ ctxDone))
       ~> (th[1].pc = "done" /\ cClosed /\ errorsClosed)
  /\ (th[1].pc \in LoopPcs /\ cl.waiting > 0) ~> (cl.waiting = 0 /\ cl.returned > 0)

\* the goroutine has exited and Close has returned, after the goroutine sent
\* an event (for a file other than t) into a buffer that was full of events
\* for t until the consumer made room
ShutDownBehindConsumer ==
  /\ th[1].pc = "done"
  /\ cClosed
  /\ errorsClosed
  /\ cl.returned = 1
  /\ Len(c) = ChanCap
  /\ c[ChanCap].Path # <<"t">>

\* positions at which a goroutine sends on c, and on errors
SendCPcs == {"send_ev", "send_del"}
SendErrPcs == {"init_send_err", "send_walkerr", "send_err"}

\* C11: each buffer holds at most ChanCap items; what was sent on a channel is
\* what was received from it followed by what its buffer holds, in this
\* order; and a goroutine at a send on a channel whose buffer is full does
\* not move.
NothingDroppedOrReordered ==
  /\ [](/\ Len(c) <= ChanCap
        /\ Len(errors) <= ChanCap
        /\ hist["c"].sent = hist["c"].rcvd \o c
        /\ hist["errors"].sent = hist["errors"].rcvd \o errors)
  /\ [][\A g \in Threads :
         \/ th[g].pc \in SendCPcs /\ Len(c) = ChanCap /\ ~cClosed
         \/ th[g].pc \in SendErrPcs /\ Len(errors) = ChanCap /\ ~errorsClosed
         => th'[g] = th[g]]_vars

\* the goroutine has sent an event and an error into buffers that were full
\* until the consumers received from them
SentAfterConsumerMadeRoom ==
  /\ Len(hist["c"].sent) > ChanCap
  /\ Len(hist["c"].rcvd) > 0
  /\ Len(hist["errors"].sent) > ChanCap
  /\ Len(hist["errors"].rcvd) > 0

\* C12: at most one goroutine at a time is about to read or write the map
\* modtimes.
OneTaskOnMapping ==
  Cardinality({g \in Threads : th[g].pc \in MapPcs}) <= 1

\* C13: every event in the buffer of c, and every event about to be sent,
\* carries a path that matches the pattern; a file that does not match has no
\* map entry and no event was ever sent for it.
OnlyMatchingPaths ==
  /\ \A k \in 1..Len(c) : Match(wpat, c[k].Path)
  /\ \A g \in Threads : th[g].pc \in SendCPcs => Match(wpat, th[g].pend.Path)
  /\ \A f \in Files :
       ~Match(wpat, f) => modtimes[f] = 0 /\ lastEv[f] = "none"

\* the file m, which does not match, was written to, and a tick that
\* enumerated other files has ended without an event
NonMatchingFileTouched ==
  \E g \in Threads :
    /\ th[g].pc = "ret"
    /\ ~Match(wpat, <<"m">>)
    /\ fsys[<<"m">>] = 2
    /\ th[g].names # <<>>
    /\ th[g].out = <<>>

\* the pattern text s has the pair ** at i, and otherwise only the literal a
\* and single separators
DoubleStarAt(s, i) ==
  /\ i + 1 <= Len(s)
  /\ s[i] = "*"
  /\ s[i + 1] = "*"
  /\ \A k \in 1..Len(s) : k \notin {i, i + 1} => s[k] \in {"a", "/"}
  /\ \A k \in 1..(Len(s) - 1) : ~(s[k] = "/" /\ s[k + 1] = "/")

\* C14: a pattern whose pair ** is followed by a separator or by the end of
\* the pattern compiles, with one AnyDirectories token for the pair; a pattern
\* whose pair is followed by another character does not compile.
DoubleStarCompiles ==
  libpc # "new" =>
    \A i \in 1..Len(src) :
      DoubleStarAt(src, i) =>
        IF i + 2 > Len(src) \/ src[i + 2] = "/"
          THEN /\ compiled.ok
               /\ Len(compiled.tokens) = Len(src) - 1
               /\ compiled.tokens[i].t = tokenTypeAnyDirectories
               /\ \A k \in 1..Len(compiled.tokens) :
                    k # i => compiled.tokens[k].t = tokenTypeLiteral
          ELSE ~compiled.ok

\* the token t is the separator
IsSeparatorToken(t) == t.t = tokenTypeLiteral /\ t.r = Separator

\* C15: in a compiled pattern every AnyDirectories token stands between the
\* start of the pattern or a separator and a separator or the end of the
\* pattern.
AnyDirectoriesIsWholeSegment ==
  libpc # "new" /\ compiled.ok =>
    \A k \in 1..Len(compiled.tokens) :
      compiled.tokens[k].t = tokenTypeAnyDirectories =>
        /\ k = 1 \/ IsSeparatorToken(compiled.tokens[k - 1])
        /\ k = Len(compiled.tokens) \/ IsSeparatorToken(compiled.tokens[k + 1])

\* the position of the first unescaped ] of s at or after i, 0 if there is none
RECURSIVE GroupClose(_, _)
GroupClose(s, i) ==
  IF i > Len(s) THEN 0
  ELSE IF s[i] = "\\" THEN GroupClose(s, i + 2)
  ELSE IF s[i] = "]" THEN i
  ELSE GroupClose(s, i + 1)

\* the pattern text s read as units: an operator character outside a group
\* stands for itself, "lit" is a literal or an escaped character, "group" a
\* closed group, "open" a [ without its ], "escape" a backslash at the end
RECURSIVE Units(_)
Units(s) ==
  IF s = <<>> THEN <<>>
  ELSE IF s[1] = "\\"
    THEN IF Len(s) = 1 THEN <<"escape">> ELSE <<"lit">> \o Units(From(s, 2))
  ELSE IF s[1] = "["
    THEN LET e == GroupClose(s, 2)
         IN IF e = 0 THEN <<"open">> ELSE <<"group">> \o Units(From(s, e))
  ELSE IF s[1] \in {"/", "*", "?", "]"} THEN <<s[1]>> \o Units(Tail(s))
  ELSE <<"lit">> \o Units(Tail(s))

\* the defects of a pattern, outside its groups
HasDefect(u) ==
  \/ "escape" \in Elems(u)
  \/ "open" \in Elems(u)
  \/ "]" \in Elems(u)
  \/ \E k \in 1..(Len(u) - 1) :
       \/ u[k] = "/" /\ u[k + 1] = "/"
       \/ u[k] = "*" /\ u[k + 1] = "?"
       \/ u[k] = "?" /\ u[k + 1] = "*"
       \/ u[k] = "*" /\ u[k + 1] = "*" /\ k + 2 <= Len(u) /\ u[k + 2] # "/"

NoEmptySegment(p) ==
  /\ p # <<>>
  /\ p[1] # "/"
  /\ p[Len(p)] # "/"
  /\ \A k \in 1..(Len(p) - 1) : ~(p[k] = "/" /\ p[k + 1] = "/")

\* C17: a pattern **/R matches a path without empty segments iff the path is
\* zero or more directories d1/.../dk/ followed by a rest q that R matches.
DirectoriesThenRest ==
  /\ libpc = "matched"
  /\ Len(src) > 3
  /\ SubSeq(src, 1, 3) = <<"*", "*", "/">>
  /\ NoEmptySegment(path)
  => LET R == New(From(src, 3))
     IN /\ R.ok
        /\ result = "T" <=>
             \E k \in 0..Len(path) :
               /\ k = 0 \/ path[k] = "/"
               /\ match(From(path, k), R.tokens) = "T"

\* **/m has matched a/a/m
TwoDirectoriesSkipped ==
  /\ libpc = "matched"
  /\ src = <<"*", "*", "/", "m">>
  /\ path = <<"a", "/", "a", "/", "m">>
  /\ result = "T"

\* the pattern text s is made of the literal a, ?, * and separators, and has
\* no pair **
PlainWildcards(s) ==
  /\ \A k \in 1..Len(s) : s[k] \in {"a", "?", "*", "/"}
  /\ \A k \in 1..(Len(s) - 1) : ~(s[k] = "*" /\ s[k + 1] = "*")

\* C18: ? and * take no separator: a path that a pattern of literals, ?, * and
\* separators matches has as many separators as the pattern; and a pattern
\* that is one ? matches the paths of one rune that is no separator, a pattern
\* that is one * the paths without a separator.
WildcardsKeepSeparators ==
  libpc = "matched" /\ PlainWildcards(src) =>
    /\ result = "T" => Count(path, "/") = Count(src, "/")
    /\ src = <<"?">> => (result = "T" <=> Len(path) = 1 /\ path[1] # "/")
    /\ src = <<"*">> => (result = "T" <=> Count(path, "/") = 0)

\* */?a has matched am/ma
WildcardsInTwoSegments ==
  /\ libpc = "matched"
  /\ src = <<"*", "/", "?", "a">>
  /\ path = <<"a", "m", "/", "m", "a">>
  /\ result = "T"

\* the pattern text s is made of plain literals
PlainLiterals(s) == \A k \in 1..Len(s) : s[k] \in {"a", "m"}

\* C19: match is anchored at both ends. With no token left it returns true
\* for the empty path only; with no path left it returns true only if no
\* token or one AnyRunes token is left; a pattern of literals matches its own
\* text and nothing else; a matched path begins with the literal the pattern
\* begins with and ends with the literal the pattern ends with.
AnchoredAtBothEnds ==
  libpc = "matched" =>
    /\ match(path, <<>>) = "T" <=> path = <<>>
    /\ match(<<>>, compiled.tokens) = "T" <=>
         \/ compiled.tokens = <<>>
         \/ /\ Len(compiled.tokens) = 1
            /\ compiled.tokens[1].t = tokenTypeAnyRunes
    /\ \A k \in 1..Len(path) :
         match(From(path, k), <<>>) = "T" <=> k = Len(path)
    /\ PlainLiterals(src) => (result = "T" <=> path = src)
    /\ result = "T" /\ compiled.tokens # <<>> /\ path # <<>> =>
         LET first == compiled.tokens[1]
             last == compiled.tokens[Len(compiled.tokens)]
         IN /\ first.t = tokenTypeLiteral => path[1] = first.r
            /\ last.t = tokenTypeLiteral => path[Len(path)] = last.r

\* a*/a has not matched a/am, whose prefix a/a it matches
PrefixOnlyIsNoMatch ==
  /\ libpc = "matched"
  /\ src = <<"a", "*", "/", "a">>
  /\ path = <<"a", "/", "a", "m">>
  /\ match(SubSeq(path, 1, 3), compiled.tokens) = "T"
  /\ result = "F"

\* the rune r is one of the runes, or lies in one of the ranges lo-hi, that
\* the text b between the brackets of a group lists
RECURSIVE InGroupText(_, _)
InGroupText(b, r) ==
  IF b = <<>> THEN FALSE
  ELSE
    LET n == IF b[1] = "\\" THEN 2 ELSE 1
        lo == b[n]
        rest == From(b, n)
    IN IF rest # <<>> /\ rest[1] = "-"
         THEN LET n2 == IF rest[2] = "\\" THEN 3 ELSE 2
                  hi == rest[n2]
              IN \/ RuneVal(lo) <= RuneVal(r) /\ RuneVal(r) <= RuneVal(hi)
                 \/ InGroupText(From(rest, n2), r)
         ELSE r = lo \/ InGroupText(rest, r)

\* C20: a pattern that is one group matches a path iff the path is one rune
\* and, for a group that is not negated, the rune is one of the group's runes
\* or lies in one of its ranges, and for a negated group neither.
GroupTakesOneRune ==
  libpc = "matched" /\ src \in GroupPatterns =>
    LET neg == src[2] = "^"
        body == SubSeq(src, IF neg THEN 3 ELSE 2, Len(src) - 1)
    IN /\ Len(compiled.tokens) = 1
       /\ compiled.tokens[1].t = tokenTypeGroup
       /\ result = "T" <=>
            /\ Len(path) = 1
            /\ InGroupText(body, path[1]) # neg

\* [xa-dm-t] has matched t, the upper end of its second range
RuneAndTwoRanges ==
  /\ libpc = "matched"
  /\ src = <<"[", "x", "a", "-", "d", "m", "-", "t", "]">>
  /\ Len(compiled.tokens[1].g.runes) = 1
  /\ Len(compiled.tokens[1].g.ranges) = 2
  /\ path = <<"t">>
  /\ result = "T"

\* the text b between the brackets of a group read as units: "-" is an
\* unescaped -, "m" any other rune or an escaped rune
RECURSIVE GroupUnits(_)
GroupUnits(b) ==
  IF b = <<>> THEN <<>>
  ELSE IF b[1] = "\\" THEN <<"m">> \o GroupUnits(From(b, 2))
  ELSE IF b[1] = "-" THEN <<"-">> \o GroupUnits(Tail(b))
  ELSE <<"m">> \o GroupUnits(Tail(b))

\* the defects of the group that the pattern text s begins with
GroupDefect(s) ==
  LET e == GroupClose(s, 2)
      first == IF Len(s) >= 2 /\ s[2] = "^" THEN 3 ELSE 2
      u == GroupUnits(SubSeq(s, first, e - 1))
  IN \/ e = 0
     \/ /\ e > 0
        /\ u # <<>>
        /\ \/ u[1] = "-"
           \/ u[Len(u)] = "-"
           \/ \E k \in 1..(Len(u) - 3) :
                u[k] = "m" /\ u[k + 1] = "-" /\ u[k + 2] = "m" /\ u[k + 3] = "-"

\* the runes of the group g: the listed ones and the ends of its ranges
GroupRunes(g) ==
  Elems(g.runes)
    \cup {g.ranges[k].lo : k \in 1..Len(g.ranges)}
    \cup {g.ranges[k].hi : k \in 1..Len(g.ranges)}

\* C21: a group text with a - that has no range start, a - directly before the
\* closing ] or the end of the pattern, a range chained onto a range, or no
\* closing ], does not compile; and the group of a pattern without a backslash
\* has neither ] nor - among its runes and range ends.
GroupDefectsAreRejected ==
  libpc # "new" /\ src \in GroupTexts =>
    /\ GroupDefect(src) => ~compiled.ok
    /\ compiled.ok /\ "\\" \notin Elems(src) =>
         GroupRunes(compiled.tokens[1].g) \cap {"]", "-"} = {}

\* the positions of the pattern text s, from i on, at which a backslash
\* escapes the rune after it; s has no group
RECURSIVE EscapesFrom(_, _)
EscapesFrom(s, i) ==
  IF i >= Len(s) THEN {}
  ELSE IF s[i] = "\\" THEN {i} \cup EscapesFrom(s, i + 2)
  ELSE EscapesFrom(s, i + 1)

\* the pattern text s has [ and ] only as escaped runes
NoGroupIn(s) ==
  \A k \in 1..Len(s) :
    s[k] \in {"[", "]"} => k - 1 \in EscapesFrom(s, 1)

\* the pattern text s with the ordinary literal x in place of the escape at i
Unescaped(s, i) == SubSeq(s, 1, i - 1) \o <<"x">> \o From(s, i + 1)

\* C22: if the pattern with an ordinary literal in place of an escaped rune c
\* compiles, the pattern with the escape compiles to the same tokens with the
\* literal c in the place of the ordinary literal, and it matches the paths
\* that the other pattern matches with the ordinary literal in place of one c.
EscapeLiteralizes ==
  libpc # "new" /\ src \in Strings(PatAlphabet, MaxPatLen) /\ NoGroupIn(src) =>
    \A i \in EscapesFrom(src, 1) :
      LET esc == src[i + 1]
          o == New(Unescaped(src, i))
      IN o.ok =>
           /\ compiled.ok
           /\ Len(compiled.tokens) = Len(o.tokens)
           /\ \A k \in 1..Len(o.tokens) :
                compiled.tokens[k] =
                  IF o.tokens[k] = token(tokenTypeLiteral, "x", EmptyGroup)
                    THEN token(tokenTypeLiteral, esc, EmptyGroup)
                    ELSE o.tokens[k]
           /\ libpc = "matched" /\ "x" \notin Elems(path) =>
                (result = "T" <=>
                   \E j \in 1..Len(path) :
                     /\ path[j] = esc
                     /\ match([path EXCEPT ![j] = "x"], o.tokens) = "T")

FilePaths(es) == {es[k].p : k \in {j \in 1..Len(es) : ~es[j].dir}}
DirPaths(es) == {es[k].p : k \in {j \in 1..Len(es) : es[j].dir}}

\* the place of path q among the entries es
Visited(es, q) == CHOOSE k \in 1..Len(es) : es[k].p = q

\* C24: GlobFS with root "." returns the files the walk visits whose path
\* matches, each once, in the order of the walk, and no directory; it returns
\* what the watcher's enumeration returns.
GlobReturnsMatchingFiles ==
  glob.done /\ glob.root = Dot =>
    LET es == WalkDir(fsys, Dot)
        out == glob.out
    IN /\ \A q \in FilePaths(es) :
            Count(out, q) = IF Match(compiled, q) THEN 1 ELSE 0
       /\ Elems(out) \subseteq FilePaths(es)
       /\ Elems(out) \cap DirPaths(es) = {}
       /\ \A i \in 1..Len(out) : \A j \in 1..Len(out) :
            i < j => Visited(es, out[i]) < Visited(es, out[j])
       /\ out = GlobFS(compiled, fsys)

\* GlobFS for * has walked a tree in which the directory d matches, and has
\* returned the files m and t
MatchingDirectoryLeftOut ==
  /\ glob.done
  /\ glob.root = Dot
  /\ src = <<"*">>
  /\ <<"d">> \in DirPaths(WalkDir(fsys, Dot))
  /\ Match(compiled, <<"d">>)
  /\ glob.out = << <<"m">>, <<"t">> >>

\* C26: GlobFS with a root other than "." returns, of the files under the
\* root, the paths relative to the root that match, without the root and
\* without a separator in front.
GlobRelativeToRoot ==
  glob.done /\ glob.root \notin {Dot, <<>>} =>
    LET under == SelectSeq(Tree, LAMBDA f : fsys[f] # 0 /\ IsUnder(f, glob.root))
        rel == [k \in 1..Len(under) |-> From(under[k], Len(glob.root) + 1)]
    IN glob.out = SelectSeq(rel, LAMBDA q : Match(compiled, q))

\* C25: once w.close is closed or the context is done, a goroutine at its
\* select starts no tick: it stays there or returns.
NoTickAfterCloseRequest ==
  [][\A g \in Threads :
       (closeClosed \/ ctxDone) /\ th[g].pc = "select" =>
         th'[g].pc \in {"select", "defer_1"}]_vars

\* C27: in a compiled pattern every AnyDirectories token is followed by a
\* separator token, and Match returns true or false, never a run time fault.
AnyDirectoriesHasSeparator ==
  /\ libpc # "new" /\ compiled.ok =>
       \A k \in 1..Len(compiled.tokens) :
         compiled.tokens[k].t = tokenTypeAnyDirectories =>
           /\ k < Len(compiled.tokens)
           /\ IsSeparatorToken(compiled.tokens[k + 1])
  /\ libpc = "matched" => result \in {"T", "F"}

\* **/a has been matched against m/m/a: match has stepped over the
\* AnyDirectories token and its separator after skipping two directories
SkippedBothTokens ==
  /\ libpc = "matched"
  /\ src = <<"*", "*", "/", "a">>
  /\ compiled.tokens[1].t = tokenTypeAnyDirectories
  /\ IsSeparatorToken(compiled.tokens[2])
  /\ path = <<"m", "/", "m", "/", "a">>
  /\ result = "T"

\* the goroutine g sends its pending event on c in this step
SendsEvent(g) ==
  /\ th[g].pc \in SendCPcs
  /\ ~cClosed
  /\ c' = Append(c, th[g].pend)

\* C28: Created is sent only for a path without map entry when the tick
\* began, Modified and Deleted only for a path with one; the event before a
\* Created of the same path is a Deleted or there is none, and the event
\* before a Modified or a Deleted of the same path is a Created or a Modified
\* or there is none.
WellFormedLifecycle ==
  [][\A g \in Threads :
       SendsEvent(g) =>
         LET e == th[g].pend
             before == lastEv[e.Path]
             had == th[g].pre[e.Path] # 0
         IN IF e.Type = Created
              THEN ~had /\ before \in {"none", Deleted}
              ELSE had /\ before \in {"none", Created, Modified}]_vars

\* d/t was created in one tick and is deleted in the next: the goroutine is
\* about to send Deleted for a path whose last event is Created
DeletedAfterCreated ==
  \E g \in Threads :
    /\ th[g].pc = "send_del"
    /\ th[g].pend.Path = <<"d", "/", "t">>
    /\ lastEv[<<"d", "/", "t">>] = Created
    /\ Len(c) < ChanCap

\* C29: Close has returned only if a goroutine has run close(w.closed); as
\* long as Start was not called, or has returned an error, no call of Close
\* has returned.
CloseWaitsForGoroutine ==
  /\ cl.returned > 0 => \E g \in Threads : th[g].pc \in {"defer_2", "defer_3", "done"}
  /\ (\A g \in Threads : th[g].pc \in {"unstarted", "start_failed"}) => cl.returned = 0

\* Start has returned the error of its walk, no goroutine was started, and
\* Close was called and waits in <-w.closed
CloseWaitsAfterFailedStart ==
  /\ th[1].pc = "start_failed"
  /\ closeClosed
  /\ cl.waiting = 1
  /\ cl.returned = 0
  /\ ~closedClosed

====
